---------------------------- MODULE Spec2Model ----------------------------
(***************************************************************************)
(* Model of the AQUALOC frame-replay driver,                               *)
(* ORB_SLAM3/Examples/Monocular/mono_aqualoc.cc: main and LoadImages.      *)
(*                                                                         *)
(* A text line is a sequence of one-character strings.  The alphabet of    *)
(* the modelled manifests is a digit, a letter, the blank and '#'; a       *)
(* timestamp is therefore a whole number of seconds.  Time is counted in   *)
(* clock ticks, TicksPerUsec of them in a microsecond, so that a measured  *)
(* duration can fall between two whole microseconds as it does with        *)
(* std::chrono::steady_clock.  The external engine (ORB_SLAM3::System) and *)
(* OpenCV are the environment: every call to them is recorded, their       *)
(* results and durations are chosen nondeterministically.                  *)
(***************************************************************************)
EXTENDS Integers, Sequences, FiniteSets, TLC

VARIABLES
    pc,                 \* position of main: start, load, init, loop,
                        \* tracking, sleeping, stats, save, done
    argc,               \* main's argc
    fileOpen,           \* whether fAssociation.open succeeds
    file,               \* the lines successive getline calls deliver
    vstrImageFilenames, \* main's vector<string>
    vTimestamps,        \* main's vector<double>, in seconds
    nImages,            \* int nImages
    imageScale,         \* float imageScale, as <<numerator, denominator>>
    vTimesTrack,        \* vector<float> vTimesTrack, in ticks
    ni,                 \* loop index
    im,                 \* cv::Mat im
    tframe,             \* double tframe
    clock,              \* steady_clock, in ticks
    t1,                 \* time_point t1
    ttrack,             \* double ttrack, in ticks
    T,                  \* double T, in ticks
    usec,               \* argument of the pending usleep call
    engineLog,          \* calls made to ORB_SLAM3::System, in order
    imreadLog,          \* calls made to cv::imread, in order
    pacing,             \* one record per finished iteration
    cerr,               \* what was written to std::cerr
    cout,               \* what was written to std::cout
    exitCode            \* main's return value, NotExited while running

vars == <<pc, argc, fileOpen, file, vstrImageFilenames, vTimestamps, nImages,
          imageScale, vTimesTrack, ni, im, tframe, clock, t1, ttrack, T, usec,
          engineLog, imreadLog, pacing, cerr, cout, exitCode>>

-----------------------------------------------------------------------------
(* Bounds of the model *)

\* longest line of a manifest in the loader specification
MaxLineLen == 4
\* most lines of a manifest in the loader specification
MaxLines == 2
\* most lines of a manifest in the driver specification
MaxFrames == 3
\* clock ticks in a microsecond
TicksPerUsec == 2

(* Program constants *)

\* the argument count main accepts
ArgcExpected == 4
\* the factor of the usleep argument, 1e6
UsecPerSec == 1000000

NotExited == -1
NoArg == <<>>
EmptyMat == [empty |-> TRUE, cols |-> 0, rows |-> 0, src |-> <<>>]
strAssociationFile == <<"a", "s", "s", "o", "c">>

-----------------------------------------------------------------------------
(* Formatted extraction from the per-line stringstream *)

IsSpace(c) == c = " "
DigitVal == ("0" :> 0) @@ ("1" :> 1) @@ ("2" :> 2) @@ ("3" :> 3) @@ ("4" :> 4)
            @@ ("5" :> 5) @@ ("6" :> 6) @@ ("7" :> 7) @@ ("8" :> 8) @@ ("9" :> 9)
IsDigit(c) == c \in DOMAIN DigitVal

\* the first position >= p of s that holds no blank, Len(s)+1 if none
RECURSIVE SkipWs(_, _)
SkipWs(s, p) ==
    IF p > Len(s) THEN p
    ELSE IF IsSpace(s[p]) THEN SkipWs(s, p + 1) ELSE p

\* the first position >= p of s that holds no digit
RECURSIVE DigitsEnd(_, _)
DigitsEnd(s, p) ==
    IF p > Len(s) THEN p
    ELSE IF IsDigit(s[p]) THEN DigitsEnd(s, p + 1) ELSE p

\* the first position >= p of s that holds a blank
RECURSIVE TokenEnd(_, _)
TokenEnd(s, p) ==
    IF p > Len(s) THEN p
    ELSE IF IsSpace(s[p]) THEN p ELSE TokenEnd(s, p + 1)

\* the value of the decimal digits s[p..q-1]
RECURSIVE DecimalValue(_, _, _)
DecimalValue(s, p, q) ==
    IF q <= p THEN 0
    ELSE 10 * DecimalValue(s, p, q - 1) + DigitVal[s[q - 1]]

\* stringstream ss; ss << s;
NewStream(s) == [buf |-> s, pos |-> 1, fail |-> FALSE, eof |-> FALSE]

\* ss >> t for a double t: the stream afterwards and the value of t
ExtractDouble(ss) ==
    IF ss.fail \/ ss.eof THEN [ss |-> [ss EXCEPT !.fail = TRUE], val |-> 0]
    ELSE LET p == SkipWs(ss.buf, ss.pos)
             q == DigitsEnd(ss.buf, p)
         IN  IF p > Len(ss.buf)
                THEN [ss |-> [ss EXCEPT !.pos = p, !.fail = TRUE, !.eof = TRUE],
                      val |-> 0]
             ELSE IF q = p
                THEN [ss |-> [ss EXCEPT !.pos = p, !.fail = TRUE], val |-> 0]
             ELSE [ss |-> [ss EXCEPT !.pos = q, !.eof = (q > Len(ss.buf))],
                   val |-> DecimalValue(ss.buf, p, q)]

\* ss >> sRGB for a string sRGB that is empty before: the stream afterwards
\* and the value of sRGB
ExtractStringIgnoringState(ss) ==
    LET p == SkipWs(ss.buf, ss.pos)
        q == TokenEnd(ss.buf, p)
    IN  [ss |-> [ss EXCEPT !.pos = q], val |-> SubSeq(ss.buf, p, q - 1)]
ExtractString(ss) ==
    IF ss.fail \/ ss.eof THEN [ss |-> [ss EXCEPT !.fail = TRUE], val |-> <<>>]
    ELSE LET p == SkipWs(ss.buf, ss.pos)
             q == TokenEnd(ss.buf, p)
         IN  IF p > Len(ss.buf)
                THEN [ss |-> [ss EXCEPT !.pos = p, !.fail = TRUE, !.eof = TRUE],
                      val |-> <<>>]
             ELSE [ss |-> [ss EXCEPT !.pos = q, !.eof = (q > Len(ss.buf))],
                   val |-> SubSeq(ss.buf, p, q - 1)]

-----------------------------------------------------------------------------
(* LoadImages *)

\* if(!s.empty() && s[0] != '#')
IsDataLine(s) == s # <<>> /\ s[1] # "#"

\* if(!sRGB.empty())
PathAcceptedAlways(sRGB) == TRUE
PathAccepted(sRGB) == sRGB # <<>>

\* the body of the while loop for the line s: the vectors afterwards
ParseLine(s, acc) ==
    IF IsDataLine(s)
       THEN LET r1 == ExtractDouble(NewStream(s))
                r2 == ExtractString(r1.ss)
            IN  IF PathAccepted(r2.val)
                   THEN [acc EXCEPT !.times = Append(@, r1.val),
                                    !.names = Append(@, r2.val)]
                   ELSE acc
       ELSE acc

\* the while loop over the lines getline delivers, from line k on
RECURSIVE ReadLines(_, _, _)
ReadLines(lines, k, acc) ==
    IF k > Len(lines) THEN acc
    ELSE ReadLines(lines, k + 1, ParseLine(lines[k], acc))

CannotOpenMsg(path) ==
    [text |-> "ERROR: Cannot open association file: ", arg |-> path]

\* LoadImages(strAssociationFile, vstrImageFilenames, vTimestamps) on two
\* empty vectors: the vectors afterwards and what it wrote to cerr
LoadImages(path, opened, lines) ==
    IF ~opened
       THEN [names |-> <<>>, times |-> <<>>, err |-> <<CannotOpenMsg(path)>>]
       ELSE ReadLines(lines, 1, [names |-> <<>>, times |-> <<>>, err |-> <<>>])

-----------------------------------------------------------------------------
(* The pieces of main *)

TicksPerSec == UsecPerSec * TicksPerUsec

UsageMsg ==
    [text |-> "Usage: ./mono_aqualoc path_to_vocabulary path_to_settings path_to_associations",
     arg |-> NoArg]
NoImagesMsg ==
    [text |-> "ERROR: No images found in association file.", arg |-> NoArg]
FailedToLoadMsgNoPath(path) ==
    [text |-> "Failed to load image at: ", arg |-> NoArg]
FailedToLoadMsg(path) ==
    [text |-> "Failed to load image at: ", arg |-> path]

\* if(argc != 4)
WrongArgc(n) == n # ArgcExpected

\* if(nImages <= 0)
NoImagesOnlyNegative(n) == n < 0
NoImages(n) == n <= 0

\* the condition of the main loop, ni < nImages
LoopCondSkipLast(i, n) == i < n - 1
LoopCond(i, n) == i < n

\* if(im.empty())
ImEmptyNever(m) == FALSE
ImEmpty(m) == m.empty

\* cv::resize(im, im, cv::Size(im.cols * imageScale, im.rows * imageScale))
\* when imageScale != 1.f
Resize(m, scale) ==
    IF scale[1] # scale[2]
       THEN [m EXCEPT !.cols = (m.cols * scale[1]) \div scale[2],
                      !.rows = (m.rows * scale[1]) \div scale[2]]
       ELSE m

\* the target interval T of iteration i (0-based) of n, in seconds
TargetIntervalNoLast(i, n, ts, tf) ==
    IF i < n - 1 THEN ts[i + 2] - tf ELSE 0
TargetInterval(i, n, ts, tf) ==
    IF i < n - 1 THEN ts[i + 2] - tf
    ELSE IF i > 0 THEN tf - ts[i]
    ELSE 0

\* if(ttrack < T)
MustSleep(tt, Tt) == tt < Tt

\* the useconds_t argument (T - ttrack) * 1e6 of usleep: the conversion of
\* the double to the integer type drops the fraction of a microsecond
UsleepArgShort(Tt, tt) == (Tt - tt) \div (2 * TicksPerUsec)
UsleepArg(Tt, tt) == (Tt - tt) \div TicksPerUsec

\* sort(vTimesTrack.begin(), vTimesTrack.end())
RECURSIVE InsertSorted(_, _)
InsertSorted(x, s) ==
    IF s = <<>> THEN <<x>>
    ELSE IF x <= Head(s) THEN <<x>> \o s
    ELSE <<Head(s)>> \o InsertSorted(x, Tail(s))
RECURSIVE Sort(_)
Sort(s) == IF s = <<>> THEN <<>> ELSE InsertSorted(Head(s), Sort(Tail(s)))

\* the loop adding vTimesTrack[0..n-1] to totaltime
RECURSIVE TotalTime(_, _)
TotalTime(s, n) == IF n = 0 THEN 0 ELSE TotalTime(s, n - 1) + s[n]

\* the index of the reported median, nImages / 2 (0-based)
MedianIndexLower(n) == (n - 1) \div 2
MedianIndex(n) == n \div 2

KeyFrameFileSwapped == "CameraTrajectory.txt"
KeyFrameFile == "KeyFrameTrajectory.txt"
CameraFile == "CameraTrajectory.txt"

Call(op, t, m, f) ==
    [op |-> op, t |-> t, img |-> m.src, cols |-> m.cols, rows |-> m.rows,
     file |-> f, at |-> clock]

-----------------------------------------------------------------------------
(* The environment *)

Line1 == <<"1", " ", "g">>
Line2 == <<"2", " ", "h">>
Line4 == <<"4", " ", "k">>
CommentLine == <<"#", "g">>
BlankLine == <<>>
DriverLines == {Line1, Line2, Line4, CommentLine, BlankLine}
DriverFiles == UNION {[1..n -> DriverLines] : n \in 1..MaxFrames}

Argcs == {ArgcExpected - 1, ArgcExpected, ArgcExpected + 1}
\* what SLAM.GetImageScale() may return: 1 and 0.5
Scales == {<<1, 1>>, <<1, 2>>}
\* the size of a decoded image
DecodedMat(path) == [empty |-> FALSE, cols |-> 5, rows |-> 3, src |-> path]
\* how long SLAM.TrackMonocular may take
TrackTimes == {1, TicksPerUsec, 2 * TicksPerSec}
\* by how much usleep may oversleep
Oversleep == {0, 1}

-----------------------------------------------------------------------------
(* main *)

Start(a, o, f) ==
    /\ pc = "start"
    /\ argc = a
    /\ fileOpen = o
    /\ file = f
    /\ vstrImageFilenames = <<>>
    /\ vTimestamps = <<>>
    /\ nImages = 0
    /\ imageScale = <<1, 1>>
    /\ vTimesTrack = <<>>
    /\ ni = 0
    /\ im = EmptyMat
    /\ tframe = 0
    /\ clock = 0
    /\ t1 = 0
    /\ ttrack = 0
    /\ T = 0
    /\ usec = 0
    /\ engineLog = <<>>
    /\ imreadLog = <<>>
    /\ pacing = <<>>
    /\ cerr = <<>>
    /\ cout = <<>>
    /\ exitCode = NotExited

Init == \E a \in Argcs, o \in BOOLEAN, f \in DriverFiles : Start(a, o, f)

\* lines 19-23
CheckArgs ==
    /\ pc = "start"
    /\ IF WrongArgc(argc)
          THEN /\ cerr' = Append(cerr, UsageMsg)
               /\ exitCode' = 1
               /\ pc' = "done"
          ELSE /\ pc' = "load"
               /\ UNCHANGED <<cerr, exitCode>>
    /\ UNCHANGED <<argc, fileOpen, file, vstrImageFilenames, vTimestamps,
                   nImages, imageScale, vTimesTrack, ni, im, tframe, clock, t1,
                   ttrack, T, usec, engineLog, imreadLog, pacing, cout>>

\* lines 25-42
LoadManifest ==
    /\ pc = "load"
    /\ LET r == LoadImages(strAssociationFile, fileOpen, file)
           n == Len(r.names)
       IN  /\ vstrImageFilenames' = r.names
           /\ vTimestamps' = r.times
           /\ nImages' = n
           /\ IF NoImages(n)
                 THEN /\ cerr' = (cerr \o r.err) \o <<NoImagesMsg>>
                      /\ exitCode' = 1
                      /\ pc' = "done"
                      /\ cout' = cout
                 ELSE /\ cerr' = cerr \o r.err
                      /\ cout' = Append(cout, [text |-> "Images in sequence: ",
                                               val |-> n])
                      /\ pc' = "init"
                      /\ exitCode' = exitCode
    /\ UNCHANGED <<argc, fileOpen, file, imageScale, vTimesTrack, ni, im,
                   tframe, clock, t1, ttrack, T, usec, engineLog, imreadLog,
                   pacing>>

\* lines 44-53
CreateSLAM ==
    /\ pc = "init"
    /\ \E s \in Scales :
          /\ imageScale' = s
          /\ engineLog' = engineLog \o
                <<Call("System", 0, EmptyMat, ""),
                  Call("GetImageScale", 0, EmptyMat, "")>>
    /\ vTimesTrack' = [i \in 1..nImages |-> 0]
    /\ ni' = 0
    /\ im' = EmptyMat
    /\ pc' = "loop"
    /\ UNCHANGED <<argc, fileOpen, file, vstrImageFilenames, vTimestamps,
                   nImages, tframe, clock, t1, ttrack, T, usec, imreadLog,
                   pacing, cerr, cout, exitCode>>

\* lines 54-77: one pass from the loop condition to the call of
\* SLAM.TrackMonocular.  Decoding and resizing are given no duration: the
\* code sets no lower limit to the time they take, and t1 is read after them.
ReadImage ==
    /\ pc = "loop"
    /\ LoopCond(ni, nImages)
    /\ \E ok \in BOOLEAN :
          LET path == vstrImageFilenames[ni + 1]
              m == IF ok THEN DecodedMat(path) ELSE [EmptyMat EXCEPT !.src = path]
              tf == vTimestamps[ni + 1]
              rm == Resize(m, imageScale)
          IN  /\ imreadLog' = Append(imreadLog, [path |-> path, ok |-> ok])
              /\ tframe' = tf
              /\ IF ImEmpty(m)
                    THEN /\ im' = m
                         /\ cerr' = Append(cerr, FailedToLoadMsg(path))
                         /\ exitCode' = 1
                         /\ pc' = "done"
                         /\ UNCHANGED <<t1, engineLog>>
                    ELSE /\ im' = rm
                         /\ t1' = clock
                         /\ engineLog' = Append(engineLog,
                                            Call("TrackMonocular", tf, rm, ""))
                         /\ pc' = "tracking"
                         /\ UNCHANGED <<cerr, exitCode>>
    /\ UNCHANGED <<argc, fileOpen, file, vstrImageFilenames, vTimestamps,
                   nImages, imageScale, vTimesTrack, ni, clock, ttrack, T, usec,
                   pacing, cout>>

\* lines 77-93: SLAM.TrackMonocular returns after d ticks; up to the call of
\* usleep, or to the end of the pass when ttrack >= T
TrackReturns ==
    /\ pc = "tracking"
    /\ \E d \in TrackTimes :
          LET t2 == clock + d
              tt == t2 - t1
              Tt == TargetInterval(ni, nImages, vTimestamps, tframe) * TicksPerSec
          IN  /\ clock' = t2
              /\ ttrack' = tt
              /\ vTimesTrack' = [vTimesTrack EXCEPT ![ni + 1] = tt]
              /\ T' = Tt
              /\ IF MustSleep(tt, Tt)
                    THEN /\ usec' = UsleepArg(Tt, tt)
                         /\ pc' = "sleeping"
                         /\ UNCHANGED <<ni, pacing>>
                    ELSE /\ pacing' = Append(pacing,
                                [ttrack |-> tt, T |-> Tt, slept |-> FALSE,
                                 usec |-> 0, start |-> t1, ret |-> t2,
                                 end |-> t2])
                         /\ ni' = ni + 1
                         /\ pc' = "loop"
                         /\ usec' = usec
    /\ UNCHANGED <<argc, fileOpen, file, vstrImageFilenames, vTimestamps,
                   nImages, imageScale, im, tframe, t1, engineLog, imreadLog,
                   cerr, cout, exitCode>>

\* line 93: usleep returns, not earlier than asked; the pass ends
UsleepReturns ==
    /\ pc = "sleeping"
    /\ \E o \in Oversleep :
          LET woke == clock + usec * TicksPerUsec + o
          IN  /\ clock' = woke
              /\ pacing' = Append(pacing,
                    [ttrack |-> ttrack, T |-> T, slept |-> TRUE, usec |-> usec,
                     start |-> t1, ret |-> clock, end |-> woke])
    /\ ni' = ni + 1
    /\ pc' = "loop"
    /\ UNCHANGED <<argc, fileOpen, file, vstrImageFilenames, vTimestamps,
                   nImages, imageScale, vTimesTrack, im, tframe, t1, ttrack, T,
                   usec, engineLog, imreadLog, cerr, cout, exitCode>>

\* lines 96-97: the loop is over
Shutdown ==
    /\ pc = "loop"
    /\ ~LoopCond(ni, nImages)
    /\ engineLog' = Append(engineLog, Call("Shutdown", 0, EmptyMat, ""))
    /\ pc' = "stats"
    /\ UNCHANGED <<argc, fileOpen, file, vstrImageFilenames, vTimestamps,
                   nImages, imageScale, vTimesTrack, ni, im, tframe, clock, t1,
                   ttrack, T, usec, imreadLog, pacing, cerr, cout, exitCode>>

\* lines 99-108; the mean totaltime / nImages is kept as the pair of the two
Statistics ==
    /\ pc = "stats"
    /\ LET sorted == Sort(vTimesTrack)
           totaltime == TotalTime(sorted, nImages)
       IN  /\ vTimesTrack' = sorted
           /\ cout' = cout \o
                 <<[text |-> "median tracking time: ",
                    val |-> sorted[MedianIndex(nImages) + 1]],
                   [text |-> "mean tracking time: ",
                    val |-> <<totaltime, nImages>>]>>
    /\ pc' = "save"
    /\ UNCHANGED <<argc, fileOpen, file, vstrImageFilenames, vTimestamps,
                   nImages, imageScale, ni, im, tframe, clock, t1, ttrack, T,
                   usec, engineLog, imreadLog, pacing, cerr, exitCode>>

\* lines 110-114
SaveTrajectories ==
    /\ pc = "save"
    /\ engineLog' = engineLog \o
          <<Call("SaveKeyFrameTrajectoryTUM", 0, EmptyMat, KeyFrameFile),
            Call("SaveTrajectoryTUM", 0, EmptyMat, CameraFile)>>
    /\ exitCode' = 0
    /\ pc' = "done"
    /\ UNCHANGED <<argc, fileOpen, file, vstrImageFilenames, vTimestamps,
                   nImages, imageScale, vTimesTrack, ni, im, tframe, clock, t1,
                   ttrack, T, usec, imreadLog, pacing, cerr, cout>>

Next ==
    \/ CheckArgs
    \/ LoadManifest
    \/ CreateSLAM
    \/ ReadImage
    \/ TrackReturns
    \/ UsleepReturns
    \/ Shutdown
    \/ Statistics
    \/ SaveTrajectories

Spec == Init /\ [][Next]_vars

-----------------------------------------------------------------------------
(* LoadImages on every manifest of the alphabet, within the bounds *)

Alphabet == {"1", "g", " ", "#"}
AllLines == UNION {[1..n -> Alphabet] : n \in 0..MaxLineLen}
\* the lines that surround the line under study
ProbeLines == {Line1, CommentLine, BlankLine, <<"g", " ", "1">>}

\* the manifests of at most MaxLines lines, one of them (at any place) any
\* line of the alphabet, the others probe lines
InitLoad ==
    \E o \in BOOLEAN, n \in 1..MaxLines :
       \E f \in [1..n -> ProbeLines], k \in 1..n, l \in AllLines :
          Start(ArgcExpected, o, [f EXCEPT ![k] = l])

NextLoad ==
    \/ CheckArgs
    \/ LoadManifest

SpecLoad == InitLoad /\ [][NextLoad]_vars

-----------------------------------------------------------------------------
(* What the properties speak of *)

Running == pc \notin {"start", "load"}
Tracks == SelectSeq(engineLog, LAMBDA e : e.op = "TrackMonocular")
Ops == [i \in 1..Len(engineLog) |-> engineLog[i].op]
CountOp(op) == Cardinality({i \in 1..Len(engineLog) : engineLog[i].op = op})
AllDecoded == \A j \in 1..Len(imreadLog) : imreadLog[j].ok
Reported(text) == \E j \in 1..Len(cout) : cout[j].text = text
ReportedVal(text) == cout[CHOOSE j \in 1..Len(cout) : cout[j].text = text].val

\* the whitespace-delimited tokens of a line
RECURSIVE Split(_, _, _)
Split(s, cur, acc) ==
    IF s = <<>> THEN (IF cur = <<>> THEN acc ELSE Append(acc, cur))
    ELSE IF Head(s) = " "
            THEN Split(Tail(s), <<>>, IF cur = <<>> THEN acc ELSE Append(acc, cur))
            ELSE Split(Tail(s), Append(cur, Head(s)), acc)
Tokens(s) == Split(s, <<>>, <<>>)

IsNumber(tok) ==
    tok # <<>> /\ \A i \in 1..Len(tok) : tok[i] \in {"0", "1", "2", "3", "4",
                                                      "5", "6", "7", "8", "9"}
RECURSIVE NumberOf(_)
NumberOf(tok) ==
    IF tok = <<>> THEN 0
    ELSE LET d == CHOOSE v \in 0..9 : ToString(v) = tok[1]
             RECURSIVE Pow10(_)
             Pow10(k) == IF k = 0 THEN 1 ELSE 10 * Pow10(k - 1)
         IN  d * Pow10(Len(tok) - 1) + NumberOf(Tail(tok))

IsComment(s) == s # <<>> /\ Head(s) = "#"
IsBlank(s) == s = <<>>
\* a line that is neither blank nor a comment and whose first token, if it
\* has one, is a number
IsNumbered(s) ==
    /\ ~IsBlank(s) /\ ~IsComment(s)
    /\ Tokens(s) # <<>> => IsNumber(Tokens(s)[1])
\* a line that is neither blank nor a comment and has no first token that
\* begins as a number
IsUnparsable(s) ==
    /\ ~IsBlank(s) /\ ~IsComment(s)
    /\ Tokens(s) # <<>> => Tokens(s)[1][1] \notin DOMAIN DigitVal
WellFormed(f) == \A i \in 1..Len(f) : IsBlank(f[i]) \/ IsComment(f[i]) \/ IsNumbered(f[i])

\* the lines that are not empty, do not start with '#' and have a second token
EntryLines(f) ==
    SelectSeq(f, LAMBDA s : ~IsBlank(s) /\ ~IsComment(s) /\ Len(Tokens(s)) >= 2)
ExpectedTimes(f) == [j \in 1..Len(EntryLines(f)) |-> NumberOf(Tokens(EntryLines(f)[j])[1])]
ExpectedNames(f) == [j \in 1..Len(EntryLines(f)) |-> Tokens(EntryLines(f)[j])[2]]

\* the target interval of the i-th pass (1-based) over n entries, in ticks
ExpectedT(i, n) ==
    (IF i < n THEN vTimestamps[i + 1] - vTimestamps[i]
     ELSE IF n > 1 THEN vTimestamps[n] - vTimestamps[n - 1]
     ELSE 0) * (1000000 * TicksPerUsec)

-----------------------------------------------------------------------------
(* C1: with exactly 3 arguments and every image decoding, the engine's     *)
(* TrackMonocular is invoked once per manifest entry, in manifest order,   *)
(* the i-th call with the timestamp (and image) of entry i; a run that     *)
(* ends has made exactly N calls; at most one call is in progress, and     *)
(* call i+1 starts only after call i has returned and its pause is over.   *)
C1_TrackEveryEntryInOrder ==
    (argc = 4 /\ Running /\ AllDecoded) =>
        /\ Len(Tracks) <= nImages
        /\ \A i \in 1..Len(Tracks) :
              /\ Tracks[i].t = vTimestamps[i]
              /\ Tracks[i].img = vstrImageFilenames[i]
        /\ (pc = "done" /\ nImages >= 1) => Len(Tracks) = nImages
        /\ Len(pacing) = (IF pc \in {"tracking", "sleeping"}
                             THEN Len(Tracks) - 1 ELSE Len(Tracks))
        /\ \A i \in 1..Len(pacing) :
              /\ pacing[i].start = Tracks[i].at
              /\ pacing[i].start <= pacing[i].ret
              /\ pacing[i].ret <= pacing[i].end
              /\ pacing[i].slept =>
                    pacing[i].end - pacing[i].ret >= pacing[i].usec * TicksPerUsec
              /\ i < Len(Tracks) => pacing[i].end <= Tracks[i + 1].at

C1_Witness ==
    /\ pc = "done" /\ exitCode = 0 /\ argc = 4
    /\ nImages = 3 /\ Len(Tracks) = 3
    /\ pacing[1].slept /\ ~pacing[2].slept

(* C2: when the image of entry k is the first that fails to decode, the    *)
(* run is over with exit code 1, TrackMonocular was invoked exactly for    *)
(* the entries before k in order, no later entry was decoded, and neither  *)
(* Shutdown nor a trajectory export was invoked.                           *)
C2_DecodeFailureAborts ==
    \A k \in 1..Len(imreadLog) :
        ~imreadLog[k].ok =>
            /\ k = Len(imreadLog)
            /\ pc = "done" /\ exitCode = 1
            /\ \A j \in 1..k : imreadLog[j].path = vstrImageFilenames[j]
            /\ Len(Tracks) = k - 1
            /\ \A j \in 1..(k - 1) :
                  /\ Tracks[j].t = vTimestamps[j]
                  /\ Tracks[j].img = vstrImageFilenames[j]
            /\ CountOp("Shutdown") = 0
            /\ CountOp("SaveKeyFrameTrajectoryTUM") = 0
            /\ CountOp("SaveTrajectoryTUM") = 0

C2_Witness ==
    /\ Len(imreadLog) = 2 /\ imreadLog[1].ok /\ ~imreadLog[2].ok
    /\ nImages = 3 /\ Len(Tracks) = 1 /\ exitCode = 1

(* C3: when the manifest cannot be opened, or each of its lines is a       *)
(* comment or blank, no entry is loaded, the run ends with exit code 1 and *)
(* no operation of the engine is ever invoked.                             *)
C3_NoEntriesNoEngine ==
    (argc = 4 /\ (~fileOpen \/ \A i \in 1..Len(file) : IsBlank(file[i]) \/ IsComment(file[i]))) =>
        /\ engineLog = <<>>
        /\ imreadLog = <<>>
        /\ Running =>
              /\ vstrImageFilenames = <<>> /\ vTimestamps = <<>>
              /\ pc = "done" /\ exitCode = 1

C3_Witness ==
    /\ argc = 4 /\ fileOpen /\ pc = "done" /\ exitCode = 1
    /\ Len(file) = 2 /\ IsComment(file[1]) /\ IsBlank(file[2])

(* C4: for a manifest that was opened and in which every line is blank, a  *)
(* comment, or begins with a numeric token, LoadImages yields two vectors  *)
(* of one length, with one entry per line that is not empty, does not      *)
(* start with '#' and has a second token: the first token as timestamp and *)
(* the second as path, in file order.                                      *)
C4_LoadsTheDataLines ==
    (Running /\ fileOpen /\ WellFormed(file)) =>
        /\ Len(vTimestamps) = Len(vstrImageFilenames)
        /\ Len(vstrImageFilenames) = Len(EntryLines(file))
        /\ vTimestamps = ExpectedTimes(file)
        /\ vstrImageFilenames = ExpectedNames(file)

C4_Witness ==
    /\ Running /\ fileOpen /\ WellFormed(file)
    /\ Len(file) = 2
    /\ file[1] = <<"#", "1", " ", "g">>
    /\ file[2] = Line1
    /\ vTimestamps = <<1>> /\ vstrImageFilenames = << <<"g">> >>

-----------------------------------------------------------------------------
(* C5, as stated: whenever the duration measured at pass i is less than    *)
(* the interval T = timestamp[i+1] - timestamp[i], the call of             *)
(* TrackMonocular of pass i+1 starts at least T after that of pass i.      *)
C5_GapAtLeastInterval ==
    \A i \in 1..(Len(Tracks) - 1) :
        LET Ti == (vTimestamps[i + 1] - vTimestamps[i]) * (1000000 * TicksPerUsec)
        IN  pacing[i].ttrack < Ti => Tracks[i + 1].at - Tracks[i].at >= Ti

(* C5, amended: under the same condition the two starts are more than T    *)
(* minus one microsecond apart, the usleep argument being (T - d) * 1e6    *)
(* cut to whole microseconds.                                              *)
C5_GapWithinOneMicrosecond ==
    \A i \in 1..(Len(Tracks) - 1) :
        LET Ti == (vTimestamps[i + 1] - vTimestamps[i]) * (1000000 * TicksPerUsec)
        IN  pacing[i].ttrack < Ti =>
                Tracks[i + 1].at - Tracks[i].at > Ti - TicksPerUsec

C5_Witness ==
    /\ Len(Tracks) = 2
    /\ pacing[1].slept
    /\ Tracks[2].at - Tracks[1].at
          < (vTimestamps[2] - vTimestamps[1]) * (1000000 * TicksPerUsec)

(* C6: Shutdown is invoked at most once, only after every entry was        *)
(* tracked and the last call returned, and nothing is tracked after it;    *)
(* the statistics are reported only after Shutdown; the exports follow the *)
(* statistics, the keyframe trajectory to KeyFrameTrajectory.txt first,    *)
(* the full one to CameraTrajectory.txt second, each once; and a run in    *)
(* which every frame decoded ends so, with exit code 0.                    *)
C6_ShutdownStatisticsExports ==
    LET n == Len(engineLog)
        exports == SelectSeq(engineLog, LAMBDA e :
                       e.op \in {"SaveKeyFrameTrajectoryTUM", "SaveTrajectoryTUM"})
    IN  /\ CountOp("Shutdown") <= 1
        /\ \A i \in 1..n :
              Ops[i] = "Shutdown" =>
                 /\ i = nImages + 3
                 /\ Len(Tracks) = nImages /\ Len(pacing) = nImages
                 /\ \A j \in 1..(i - 1) :
                       Ops[j] \in {"System", "GetImageScale", "TrackMonocular"}
                 /\ \A j \in (i + 1)..n : Ops[j] # "TrackMonocular"
        /\ (Reported("median tracking time: ") \/ Reported("mean tracking time: "))
              => CountOp("Shutdown") = 1
        /\ exports # <<>> =>
              /\ Reported("median tracking time: ")
              /\ Reported("mean tracking time: ")
              /\ CountOp("Shutdown") = 1
              /\ n = nImages + 5
              /\ SubSeq(Ops, n - 2, n) =
                    <<"Shutdown", "SaveKeyFrameTrajectoryTUM", "SaveTrajectoryTUM">>
              /\ engineLog[n - 1].file = "KeyFrameTrajectory.txt"
              /\ engineLog[n].file = "CameraTrajectory.txt"
              /\ pc = "done" /\ exitCode = 0
        /\ (pc = "done" /\ argc = 4 /\ nImages >= 1 /\ AllDecoded) =>
              /\ exitCode = 0
              /\ Len(exports) = 2
        /\ exitCode = 0 => Len(exports) = 2

C6_Witness ==
    /\ pc = "done" /\ exitCode = 0 /\ nImages = 2
    /\ Ops = <<"System", "GetImageScale", "TrackMonocular", "TrackMonocular",
               "Shutdown", "SaveKeyFrameTrajectoryTUM", "SaveTrajectoryTUM">>

(* C7, as stated: every error is written to the error stream with a        *)
(* message that names the file at fault (the usage message has no file to  *)
(* name), and the run is then over with exit code 1.                       *)
C7_EveryErrorNamesItsFile ==
    \A i \in 1..Len(cerr) :
        /\ argc = 4 => cerr[i].arg # <<>>
        /\ pc = "done" /\ exitCode = 1

(* C7, amended: each of the four errors is written to the error stream and *)
(* ends the run with exit code 1 with no further call of the engine or of  *)
(* imread; the message of a manifest that cannot be opened names the       *)
(* manifest and is followed by the empty-manifest message, the message of  *)
(* a frame that fails to decode names the image, the usage message and the *)
(* empty-manifest message name no file; exit code 1 is never without a     *)
(* message.                                                                *)
C7_ErrorsReportedAndFatal ==
    /\ cerr # <<>> => (pc = "done" /\ exitCode = 1)
    /\ exitCode = 1 => cerr # <<>>
    /\ (Running \/ pc = "done") =>
          /\ argc # 4 =>
                /\ Len(cerr) = 1 /\ cerr[1].arg = <<>>
                /\ cerr[1].text = "Usage: ./mono_aqualoc path_to_vocabulary path_to_settings path_to_associations"
                /\ engineLog = <<>> /\ imreadLog = <<>>
          /\ (argc = 4 /\ ~fileOpen) =>
                /\ Len(cerr) = 2
                /\ cerr[1].text = "ERROR: Cannot open association file: "
                /\ cerr[1].arg = strAssociationFile
                /\ cerr[2].text = "ERROR: No images found in association file."
                /\ cerr[2].arg = <<>>
                /\ engineLog = <<>> /\ imreadLog = <<>>
          /\ (argc = 4 /\ fileOpen /\ vstrImageFilenames = <<>>) =>
                /\ Len(cerr) = 1 /\ cerr[1].arg = <<>>
                /\ cerr[1].text = "ERROR: No images found in association file."
                /\ engineLog = <<>> /\ imreadLog = <<>>
          /\ ~AllDecoded =>
                /\ Len(cerr) = 1
                /\ cerr[1].text = "Failed to load image at: "
                /\ cerr[1].arg = imreadLog[Len(imreadLog)].path
                /\ cerr[1].arg = vstrImageFilenames[Len(imreadLog)]
                /\ ~imreadLog[Len(imreadLog)].ok
                /\ Len(Tracks) = Len(imreadLog) - 1
          /\ (argc = 4 /\ vstrImageFilenames # <<>> /\ AllDecoded) => cerr = <<>>

C7_Witness ==
    /\ pc = "done" /\ exitCode = 1 /\ argc = 4 /\ ~fileOpen
    /\ Len(cerr) = 2 /\ cerr[1].arg = strAssociationFile /\ cerr[2].arg = <<>>

(* C8: the reported median is the element of rank N/2 (integer division,   *)
(* counted from 0) among all N measured durations in ascending order, and  *)
(* the reported mean is the sum of all N of them over N.                   *)
C8_MedianAndMean ==
    Reported("median tracking time: ") =>
        LET N == nImages
            sample == [i \in 1..Len(pacing) |-> pacing[i].ttrack]
            median == ReportedVal("median tracking time: ")
            mean == ReportedVal("mean tracking time: ")
            RECURSIVE Sum(_)
            Sum(k) == IF k = 0 THEN 0 ELSE Sum(k - 1) + sample[k]
        IN  /\ Len(sample) = N /\ N >= 1
            /\ \E i \in 1..N : sample[i] = median
            /\ Cardinality({i \in 1..N : sample[i] < median}) <= N \div 2
            /\ Cardinality({i \in 1..N : sample[i] <= median}) > N \div 2
            /\ Reported("mean tracking time: ")
            /\ mean = <<Sum(N), N>>

C8_Witness ==
    /\ pc = "done" /\ exitCode = 0 /\ nImages = 2
    /\ pacing[1].ttrack > pacing[2].ttrack
    /\ ReportedVal("median tracking time: ") = pacing[1].ttrack

(* C9, as stated: in every pass T is timestamp[i+1] - timestamp[i] before  *)
(* the last entry, timestamp[i] - timestamp[i-1] at the last entry when    *)
(* N > 1, and 0 when N = 1; the driver asks to be suspended for exactly    *)
(* T - d when d < T and not at all when d >= T.                            *)
C9_SleepsExactlyTheRemainder ==
    \A i \in 1..Len(pacing) :
        /\ pacing[i].T = ExpectedT(i, nImages)
        /\ pacing[i].slept = (pacing[i].ttrack < pacing[i].T)
        /\ pacing[i].slept =>
              pacing[i].usec * TicksPerUsec = pacing[i].T - pacing[i].ttrack

(* C9, amended: T is as stated; when d < T the driver calls usleep with    *)
(* (T - d) * 1e6 cut to a whole number of microseconds, which is T - d or  *)
(* less than one microsecond short of it, and when d >= T it does not call *)
(* usleep; the request depends on the T and d of the same pass only.       *)
C9_SleepsTheTruncatedRemainder ==
    \A i \in 1..Len(pacing) :
        /\ pacing[i].T = ExpectedT(i, nImages)
        /\ pacing[i].slept = (pacing[i].ttrack < pacing[i].T)
        /\ pacing[i].slept =>
              /\ pacing[i].usec >= 0
              /\ pacing[i].usec * TicksPerUsec <= pacing[i].T - pacing[i].ttrack
              /\ pacing[i].T - pacing[i].ttrack < (pacing[i].usec + 1) * TicksPerUsec
        /\ ~pacing[i].slept => pacing[i].end = pacing[i].ret

C9_Witness ==
    /\ nImages = 3 /\ Len(pacing) = 3
    /\ ~pacing[1].slept
    /\ pacing[3].slept
    /\ pacing[3].usec * TicksPerUsec < pacing[3].T - pacing[3].ttrack

=============================================================================
